---- MODULE Spec2Model ----
(***************************************************************************)
(* A model of the gologs leveled logger (src/gologs.go).                   *)
(*                                                                         *)
(* Strings are sequences of tokens; a token is a piece of text that the    *)
(* code never splits ("[", a level name, "%s", "{{suffix}}", ...).  The    *)
(* tokenisation is canonical: equal strings have equal token sequences.    *)
(* Sinks (io.Writer values and files) are observed through `wrote`, the    *)
(* ordered list of writes the last operation performed; a file is kept in  *)
(* `fs` as the number of lines appended to it since it was created.        *)
(***************************************************************************)
EXTENDS Integers, Sequences, FiniteSets, TLC

\* ---------------------------------------------------------------- levels
Debug == 10
Info == 20
Hint == 22
Important == 24
Warn == 30
Error == 40

\* ---------------------------------------------------------------- bounds
\* Lines a log file may hold before the model stops appending to it.
MaxLines == 2
\* Leveled calls the threads of the concurrent scenario may start.
MaxCalls == 3
\* Open file descriptors the process may hold (open fails beyond it).
MaxFds == 2

\* ---------------------------------------------------------------- inputs
Nil == 0
Stdout == "os.Stdout"
Writers == {Stdout, "buf"}
NoPath == ""
GoodPaths == {"1.txt"}
Paths == GoodPaths \cup {NoPath}
CustomLevel == 1
BuiltinLevels == {Debug, Info, Hint, Important, Warn, Error}
NamedLevels == {Info, Warn}
CallLevels == NamedLevels \cup {CustomLevel}
MinLevels == {0, Debug, Warn}
Times == {"2006-01-02 15:04.05"}
Msg == <<"m">>
FmtArg == <<"%s">>

Emitters == {"e1", "e2"}
Main == "main"
Threads == Emitters \cup {Main}
NoThread == "none"

EmptyMap == [l \in {} |-> <<>>]

\* ---------------------------------------------------------------- state
VARIABLES
    Quiet, Clean, Level, Color, LogToFile, LogFileName,   \* Logger fields
    logFile, writer, formatter, colorMap,                 \* Logger fields
    Levels, DefaultFormatterMap, DefaultColorMap,         \* global registries
    fs,        \* file system: existing path -> number of lines in the file
    fds,       \* open file descriptors: handle -> path
    badClose,  \* history: a handle was closed that was not open
    removed,   \* history: Close has deleted a log file
    last,      \* the last operation: [op, level, target, text, flag]
    wrote,     \* the writes of the last operation: <<[to, data], ...>>
    pc,        \* thread -> the statement it is at (concurrent scenario)
    lvl,       \* thread -> the level of the leveled call it is in
    mu,        \* Logger.mu: [readers, writer, pending]
    muf,       \* Logger.muf: the thread holding it, or NoThread
    rmv,       \* the argument of the Close call in progress
    calls,     \* leveled calls started by threads
    hist       \* history: [stale, shared]

logger == <<Quiet, Clean, Level, Color, LogToFile, LogFileName, logFile,
            writer, formatter, colorMap>>
registry == <<Levels, DefaultFormatterMap, DefaultColorMap>>
os == <<fs, fds, badClose, removed>>
threads == <<pc, lvl, mu, muf, rmv, calls, hist>>
vars == <<logger, registry, os, last, wrote, threads>>

\* ---------------------------------------------------------------- strings
RECURSIVE Sprintf(_, _)
Sprintf(f, args) ==
    IF f = <<>> THEN (IF args = <<>> THEN <<>> ELSE <<"%!(EXTRA)">>)
    ELSE IF Head(f) = "%s"
         THEN IF args = <<>>
              THEN <<"%!s(MISSING)">> \o Sprintf(Tail(f), args)
              ELSE Head(args) \o Sprintf(Tail(f), Tail(args))
         ELSE <<Head(f)>> \o Sprintf(Tail(f), args)

Sprintln(s) == s \o <<"\n">>

RECURSIVE Replace(_, _, _)
Replace(line, old, new) ==
    IF line = <<>> THEN <<>>
    ELSE IF Head(line) = old THEN new \o Replace(Tail(line), old, new)
         ELSE <<Head(line)>> \o Replace(Tail(line), old, new)

Itoa(n) == ToString(n)

getCurtime(now) == now
SuffixFunc(now) == <<", ", getCurtime(now)>>
PrefixFunc == <<>>

\* ---------------------------------------------------------------- registry
InitLevels ==
    [l \in BuiltinLevels |->
        CASE l = Debug -> "Debug" [] l = Info -> "Info" [] l = Error -> "Error"
          [] l = Warn -> "Warn" [] l = Hint -> "Hint" [] l = Important -> "Important"]

InitColorMap ==
    [l \in BuiltinLevels |->
        CASE l = Debug -> "Yellow" [] l = Error -> "RedBold" [] l = Info -> "Cyan"
          [] l = Hint -> "CyanBold" [] l = Warn -> "YellowBold"
          [] l = Important -> "PurpleBold"]

InitFormatterMap ==
    [l \in BuiltinLevels |->
        CASE l = Debug -> <<"[", "Debug", "] ", "%s", " ", "\n">>
          [] l = Warn -> <<"[", "Warn", "] ", "%s", " ", "\n">>
          [] l = Error -> <<"[", "Error", "] ", "%s", " ", "\n">>
          [] l = Info -> <<"[", "-", "] ", "%s", " ", "{{suffix}}", "\n">>
          [] l = Hint -> <<"[", "+", "] ", "%s", " ", "{{suffix}}", "\n">>
          [] l = Important -> <<"[", "*", "] ", "%s", " ", "{{suffix}}", "\n">>]

Name(l) == IF l \in DOMAIN Levels THEN Levels[l] ELSE Itoa(l)

Formatter(l) ==
    IF l \in DOMAIN DefaultFormatterMap THEN DefaultFormatterMap[l]
    ELSE <<"[", Name(l), "] ", "%s">>

ApplyColor(c, s) == IF c = "defaultColor" THEN s ELSE <<c>> \o s \o <<"Reset">>

ColorOf(l) ==
    IF l \in DOMAIN DefaultColorMap THEN DefaultColorMap[l] ELSE "defaultColor"

\* A map field of the Logger is a reference: either to the global map or to
\* a map of its own.
TheFormatter == IF formatter.global THEN DefaultFormatterMap ELSE formatter.map
TheColorMap == IF colorMap.global THEN DefaultColorMap ELSE colorMap.map

SetLevelColor(level, line) ==
    IF level \in DOMAIN TheColorMap THEN ApplyColor(TheColorMap[level], line)
    ELSE IF level \in DOMAIN DefaultColorMap
         THEN ApplyColor(DefaultColorMap[level], line)
         ELSE line

Format(level, s, now) ==
    LET line == IF level \in DOMAIN TheFormatter
                THEN Sprintf(TheFormatter[level], <<s>>)
                ELSE IF level \in DOMAIN DefaultFormatterMap
                     THEN Sprintf(DefaultFormatterMap[level], <<s>>)
                     ELSE Sprintf(<<"[", "%s", "] ", "%s", " ">>,
                                  <<<<Name(level)>>, s>>)
    IN  Replace(Replace(line, "{{suffix}}", SuffixFunc(now)),
                "{{prefix}}", PrefixFunc)

\* ---------------------------------------------------------------- files
W(to, data) == [to |-> to, data |-> data]
Op(op, level, target, text, flag) ==
    [op |-> op, level |-> level, target |-> target, text |-> text, flag |-> flag]
Plain(op, flag) == Op(op, 0, "", <<>>, flag)

Restrict(f, S) == [x \in S |-> f[x]]
\* The kernel hands out the lowest free descriptor.
FreshFd(open) == CHOOSE h \in 1..(MaxFds + 1) :
                    h \notin DOMAIN open /\ \A g \in 1..(h - 1) : g \in DOMAIN open

\* os.OpenFile(name, O_CREATE|O_WRONLY|O_APPEND, 0666) succeeds
CanOpen(open, name) == name \in GoodPaths /\ Cardinality(DOMAIN open) < MaxFds

\* (*os.File).Close: [fds, badClose] after closing handle h
CloseFile(open, bad, h) ==
    IF h \in DOMAIN open
    THEN [fds |-> Restrict(open, DOMAIN open \ {h}), bad |-> bad]
    ELSE [fds |-> open, bad |-> TRUE]

\* ---------------------------------------------------------------- Init
Init ==
    /\ Quiet = FALSE /\ Clean = FALSE /\ Level = Warn /\ Color = FALSE
    /\ LogToFile = FALSE /\ LogFileName = NoPath
    /\ logFile = Nil /\ writer = Stdout
    /\ formatter = [global |-> TRUE, map |-> EmptyMap]
    /\ colorMap = [global |-> TRUE, map |-> EmptyMap]
    /\ Levels = InitLevels
    /\ DefaultFormatterMap = InitFormatterMap
    /\ DefaultColorMap = InitColorMap
    /\ fs = EmptyMap /\ fds = EmptyMap /\ badClose = FALSE /\ removed = FALSE
    /\ last = Plain("NewLogger", FALSE)
    /\ wrote = <<>>
    /\ pc = [t \in Threads |-> "start"]
    /\ lvl = [t \in Emitters |-> 0]
    /\ mu = [readers |-> {}, writer |-> NoThread, pending |-> FALSE]
    /\ muf = NoThread
    /\ rmv = FALSE
    /\ calls = 0
    /\ hist = [stale |-> FALSE, shared |-> FALSE]

\* ---------------------------------------------------------------- setters
SetQuiet(q) ==
    /\ Quiet' = q
    /\ last' = Plain("SetQuiet", q) /\ wrote' = <<>>
    /\ UNCHANGED <<Clean, Level, Color, LogToFile, LogFileName, logFile,
                   writer, formatter, colorMap, registry, os>>

SetClean(c) ==
    /\ Clean' = c
    /\ last' = Plain("SetClean", c) /\ wrote' = <<>>
    /\ UNCHANGED <<Quiet, Level, Color, LogToFile, LogFileName, logFile,
                   writer, formatter, colorMap, registry, os>>

SetColor(c) ==
    /\ Color' = c
    /\ last' = Plain("SetColor", c) /\ wrote' = <<>>
    /\ UNCHANGED <<Quiet, Clean, Level, LogToFile, LogFileName, logFile,
                   writer, formatter, colorMap, registry, os>>

SetLevel(l) ==
    /\ Level' = l
    /\ last' = Op("SetLevel", l, "", <<>>, FALSE) /\ wrote' = <<>>
    /\ UNCHANGED <<Quiet, Clean, Color, LogToFile, LogFileName, logFile,
                   writer, formatter, colorMap, registry, os>>

SetOutput(w) ==
    /\ writer' = w
    /\ last' = Op("SetOutput", 0, w, <<>>, FALSE) /\ wrote' = <<>>
    /\ UNCHANGED <<Quiet, Clean, Level, Color, LogToFile, LogFileName, logFile,
                   formatter, colorMap, registry, os>>

\* Mutant: SetFile also drops the open handle.
SetFile_Reopen(filename) ==
    /\ LogFileName' = filename
    /\ logFile' = Nil /\ fds' = EmptyMap
    /\ last' = Op("SetFile", 0, filename, <<>>, FALSE) /\ wrote' = <<>>
    /\ UNCHANGED <<Quiet, Clean, Level, Color, LogToFile,
                   writer, formatter, colorMap, registry, fs, badClose, removed>>

SetFile(filename) ==
    /\ LogFileName' = filename
    /\ last' = Op("SetFile", 0, filename, <<>>, FALSE) /\ wrote' = <<>>
    /\ UNCHANGED <<Quiet, Clean, Level, Color, LogToFile, logFile,
                   writer, formatter, colorMap, registry, os>>

SetFormatter(f) ==
    /\ formatter' = f
    /\ last' = Plain("SetFormatter", f.global) /\ wrote' = <<>>
    /\ UNCHANGED <<Quiet, Clean, Level, Color, LogToFile, LogFileName, logFile,
                   writer, colorMap, registry, os>>

SetColorMap(cm) ==
    /\ colorMap' = cm
    /\ last' = Plain("SetColorMap", cm.global) /\ wrote' = <<>>
    /\ UNCHANGED <<Quiet, Clean, Level, Color, LogToFile, LogFileName, logFile,
                   writer, formatter, registry, os>>

\* ---------------------------------------------------------------- file ops
Println(s) == W(Stdout, s \o <<"\n">>)

\* Mutant: a failed open leaves the previous (closed) handle in the field.
InitLogFileBody_KeepHandle ==
    LET c  == IF logFile # Nil THEN CloseFile(fds, badClose, logFile)
              ELSE [fds |-> fds, bad |-> badClose]
        ok == CanOpen(c.fds, LogFileName)
        h  == FreshFd(c.fds)
    IN  [logFile |-> IF ok THEN h ELSE logFile,
         fds     |-> IF ok THEN c.fds @@ (h :> LogFileName) ELSE c.fds,
         bad     |-> c.bad,
         fs      |-> IF ok /\ LogFileName \notin DOMAIN fs
                     THEN fs @@ (LogFileName :> 0) ELSE fs,
         wrote   |-> IF ok THEN <<>>
                     ELSE <<Println(<<"Error: Set log file is error">>)>>]

\* Mutant: the previous handle is not closed before the file is opened.
InitLogFileBody_Leak ==
    LET ok == CanOpen(fds, LogFileName)
        h  == FreshFd(fds)
    IN  [logFile |-> IF ok THEN h ELSE Nil,
         fds     |-> IF ok THEN fds @@ (h :> LogFileName) ELSE fds,
         bad     |-> badClose,
         fs      |-> IF ok /\ LogFileName \notin DOMAIN fs
                     THEN fs @@ (LogFileName :> 0) ELSE fs,
         wrote   |-> IF ok THEN <<>>
                     ELSE <<Println(<<"Error: Set log file is error">>)>>]

\* The effect of InitLogFile on [logFile, fds, bad, fs, wrote].
InitLogFileBody ==
    LET c  == IF logFile # Nil THEN CloseFile(fds, badClose, logFile)
              ELSE [fds |-> fds, bad |-> badClose]
        ok == CanOpen(c.fds, LogFileName)
        h  == FreshFd(c.fds)
    IN  [logFile |-> IF ok THEN h ELSE Nil,
         fds     |-> IF ok THEN c.fds @@ (h :> LogFileName) ELSE c.fds,
         bad     |-> c.bad,
         fs      |-> IF ok /\ LogFileName \notin DOMAIN fs
                     THEN fs @@ (LogFileName :> 0) ELSE fs,
         wrote   |-> IF ok THEN <<>>
                     ELSE <<Println(<<"Error: Set log file is error">>)>>]

InitLogFile ==
    LET r == InitLogFileBody IN
    /\ logFile' = r.logFile /\ fds' = r.fds /\ badClose' = r.bad /\ fs' = r.fs
    /\ wrote' = r.wrote
    /\ last' = Plain("InitLogFile", FALSE)
    /\ UNCHANGED <<Quiet, Clean, Level, Color, LogToFile, LogFileName,
                   writer, formatter, colorMap, registry, removed>>

SetIsLogToFile(l) ==
    /\ LogToFile' = l
    /\ IF l
       THEN LET r == InitLogFileBody IN
            /\ logFile' = r.logFile /\ fds' = r.fds /\ badClose' = r.bad
            /\ fs' = r.fs /\ wrote' = r.wrote
       ELSE LET c == IF logFile # Nil THEN CloseFile(fds, badClose, logFile)
                     ELSE [fds |-> fds, bad |-> badClose] IN
            /\ logFile' = Nil /\ fds' = c.fds /\ badClose' = c.bad
            /\ fs' = fs /\ wrote' = <<>>
    /\ last' = Plain("SetIsLogToFile", l)
    /\ UNCHANGED <<Quiet, Clean, Level, Color, LogFileName,
                   writer, formatter, colorMap, registry, removed>>

\* Mutant: Close(true) leaves the file in place.
Close_KeepFile(remove) ==
    LET c == IF logFile # Nil THEN CloseFile(fds, badClose, logFile)
             ELSE [fds |-> fds, bad |-> badClose] IN
    /\ logFile' = Nil /\ fds' = c.fds /\ badClose' = c.bad
    /\ fs' = fs /\ removed' = (removed \/ (remove /\ LogFileName \in DOMAIN fs))
    /\ wrote' = <<>>
    /\ last' = Plain("Close", remove)
    /\ UNCHANGED <<Quiet, Clean, Level, Color, LogToFile, LogFileName,
                   writer, formatter, colorMap, registry>>

\* Mutant: Close also switches the file sink off.
Close_Disable(remove) ==
    LET c == IF logFile # Nil THEN CloseFile(fds, badClose, logFile)
             ELSE [fds |-> fds, bad |-> badClose] IN
    /\ logFile' = Nil /\ fds' = c.fds /\ badClose' = c.bad
    /\ LogToFile' = FALSE
    /\ IF remove /\ LogFileName \in DOMAIN fs
       THEN fs' = Restrict(fs, DOMAIN fs \ {LogFileName}) /\ removed' = TRUE
       ELSE fs' = fs /\ removed' = removed
    /\ wrote' = <<>>
    /\ last' = Plain("Close", remove)
    /\ UNCHANGED <<Quiet, Clean, Level, Color, LogFileName,
                   writer, formatter, colorMap, registry>>

\* Close when no other thread uses the Logger: the lock is free.
Close(remove) ==
    LET c == IF logFile # Nil THEN CloseFile(fds, badClose, logFile)
             ELSE [fds |-> fds, bad |-> badClose] IN
    /\ logFile' = Nil /\ fds' = c.fds /\ badClose' = c.bad
    /\ IF remove
       THEN IF LogFileName \in DOMAIN fs
            THEN /\ fs' = Restrict(fs, DOMAIN fs \ {LogFileName})
                 /\ removed' = TRUE
                 /\ wrote' = <<>>
            ELSE /\ fs' = fs /\ removed' = removed
                 /\ wrote' = <<W(Stdout, <<"Error removing logfile: ">>)>>
       ELSE fs' = fs /\ removed' = removed /\ wrote' = <<>>
    /\ last' = Plain("Close", remove)
    /\ UNCHANGED <<Quiet, Clean, Level, Color, LogToFile, LogFileName,
                   writer, formatter, colorMap, registry>>

\* ---------------------------------------------------------------- AddLevel
RECURSIVE AddOpts(_, _, _, _)
AddOpts(level, opts, fm, cm) ==
    IF opts = <<>> THEN [fm |-> fm, cm |-> cm]
    ELSE LET o == Head(opts) IN
         IF o.type = "string"
         THEN AddOpts(level, Tail(opts),
                      [l \in DOMAIN fm \cup {level} |->
                          IF l = level THEN o.str ELSE fm[l]], cm)
         ELSE IF o.type = "func"
              THEN AddOpts(level, Tail(opts), fm,
                           [l \in DOMAIN cm \cup {level} |->
                               IF l = level THEN o.fn ELSE cm[l]])
              ELSE AddOpts(level, Tail(opts), fm, cm)

AddLevel(level, name, opts) ==
    LET r == AddOpts(level, opts, DefaultFormatterMap, DefaultColorMap) IN
    /\ Levels' = [l \in DOMAIN Levels \cup {level} |->
                     IF l = level THEN name ELSE Levels[l]]
    /\ DefaultFormatterMap' = r.fm
    /\ DefaultColorMap' = r.cm
    /\ last' = Op("AddLevel", level, "", <<>>, opts # <<>>) /\ wrote' = <<>>
    /\ UNCHANGED <<logger, os>>

\* ---------------------------------------------------------------- emission
\* The effect of writeToFile on [fs, wrote], given the handle it reads.
writeToFile(line) ==
    IF logFile = Nil
    THEN [fs |-> fs,
          wrote |-> <<Println(<<"Error: Log file is not initialized.">>)>>]
    ELSE IF logFile \notin DOMAIN fds
         THEN [fs |-> fs,
               wrote |-> <<W(Stdout, <<"Error writing to logfile: ", "\n">>)>>]
         ELSE LET p == fds[logFile] IN
              [fs |-> IF p \in DOMAIN fs
                      THEN [fs EXCEPT ![p] = @ + 1] ELSE fs,
               wrote |-> <<W(p, line)>>]

\* Mutant: the gate forgets the Quiet flag.
logInterface_IgnoreQuiet(w, level, s, now) ==
    IF level >= Level
    THEN LET line == Format(level, s, now)
             con  == IF Color THEN <<W(w, SetLevelColor(level, line))>>
                     ELSE <<W(w, line)>>
         IN  IF LogToFile
             THEN LET f == writeToFile(line) IN
                  [fs |-> f.fs, wrote |-> con \o f.wrote]
             ELSE [fs |-> fs, wrote |-> con]
    ELSE [fs |-> fs, wrote |-> <<>>]

\* Mutant: the file receives the line the writer received, colored or not.
logInterface_ColorFile(w, level, s, now) ==
    IF ~Quiet /\ level >= Level
    THEN LET line == Format(level, s, now)
             out  == IF Color THEN SetLevelColor(level, line) ELSE line
         IN  IF LogToFile
             THEN LET f == writeToFile(out) IN
                  [fs |-> f.fs, wrote |-> <<W(w, out)>> \o f.wrote]
             ELSE [fs |-> fs, wrote |-> <<W(w, out)>>]
    ELSE [fs |-> fs, wrote |-> <<>>]

\* Mutant: Clean also silences the writer of a leveled call.
logInterface_Clean(w, level, s, now) ==
    IF ~Quiet /\ level >= Level
    THEN LET line == Format(level, s, now)
             con  == IF Clean THEN <<>>
                     ELSE IF Color THEN <<W(w, SetLevelColor(level, line))>>
                          ELSE <<W(w, line)>>
         IN  IF LogToFile
             THEN LET f == writeToFile(line) IN
                  [fs |-> f.fs, wrote |-> con \o f.wrote]
             ELSE [fs |-> fs, wrote |-> con]
    ELSE [fs |-> fs, wrote |-> <<>>]

logInterface(w, level, s, now) ==
    IF ~Quiet /\ level >= Level
    THEN LET line == Format(level, s, now)
             con  == IF Color THEN <<W(w, SetLevelColor(level, line))>>
                     ELSE <<W(w, line)>>
         IN  IF LogToFile
             THEN LET f == writeToFile(line) IN
                  [fs |-> f.fs, wrote |-> con \o f.wrote]
             ELSE [fs |-> fs, wrote |-> con]
    ELSE [fs |-> fs, wrote |-> <<>>]

logInterfacef(w, level, format, args, now) ==
    IF ~Quiet /\ level >= Level
    THEN LET line == Format(level, Sprintf(format, args), now)
             con  == IF Color THEN <<W(w, SetLevelColor(level, line))>>
                     ELSE <<W(w, line)>>
         IN  IF LogToFile
             THEN LET f == writeToFile(line) IN
                  [fs |-> f.fs, wrote |-> con \o f.wrote]
             ELSE [fs |-> fs, wrote |-> con]
    ELSE [fs |-> fs, wrote |-> <<>>]

\* A leveled call: its effect r, recorded as the last operation.
Leveled(w, level, text, r) ==
    /\ fs' = r.fs /\ wrote' = r.wrote
    /\ \A p \in DOMAIN r.fs : r.fs[p] <= MaxLines
    /\ last' = Op("leveled", level, w, text, FALSE)
    /\ UNCHANGED <<logger, registry, fds, badClose, removed>>

Log(level, s, now) ==
    Leveled(writer, level, s, logInterface(writer, level, s, now))

Logf(level, format, args, now) ==
    Leveled(writer, level, Sprintf(format, args),
            logInterfacef(writer, level, format, args, now))

FLogf(w, level, s, now) ==
    Leveled(w, level, Sprintln(s),
            logInterface(w, level, Sprintln(s), now))

\* Debug, Info, Hint, Important, Warn, Error
LevelMethod(level, s, now) ==
    Leveled(writer, level, s, logInterface(writer, level, s, now))

\* Debugf, Infof, Hintf, Importantf, Warnf, Errorf
LevelMethodf(level, format, args, now) ==
    Leveled(writer, level, Sprintf(format, args),
            logInterfacef(writer, level, format, args, now))

\* FDebugf, FInfof, FImportantf, FWarnf, FErrorf
FLevelMethodf(w, level, format, args, now) ==
    Leveled(w, level, Sprintf(format, args),
            logInterfacef(w, level, format, args, now))

\* ---------------------------------------------------------------- console
Passthrough(w, s) ==
    /\ wrote' = IF ~Clean THEN <<W(w, s)>> ELSE <<>>
    /\ last' = Op("console", 0, w, s, FALSE)
    /\ UNCHANGED <<logger, registry, os>>

Console(s) == Passthrough(writer, s)
Consolef(format, args) == Passthrough(writer, Sprintf(format, args))
FConsolef(w, format, args) == Passthrough(w, Sprintf(format, args))

\* ---------------------------------------------------------------- threads
\* The concurrent scenario of the test: the main thread configures the file
\* sink, the emitter threads then log while the main thread calls Close.
EmitCS == {"gate", "mufLock", "check", "write", "mufUnlock", "RUnlock"}
CloseCS == {"closeFile", "setNil", "remove", "Unlock"}

MainSetFile(filename) ==
    /\ pc[Main] = "start"
    /\ SetFile(filename)
    /\ pc' = [pc EXCEPT ![Main] = "configured"]
    /\ UNCHANGED <<lvl, mu, muf, rmv, calls, hist>>

MainSetIsLogToFile ==
    /\ pc[Main] = "configured"
    /\ SetIsLogToFile(TRUE)
    /\ pc' = [pc EXCEPT ![Main] = "ready"]
    /\ UNCHANGED <<lvl, mu, muf, rmv, calls, hist>>

\* sync.RWMutex: a reader enters unless a writer holds or awaits the lock.
CanRLock == mu.writer = NoThread /\ ~mu.pending
\* Mutant: the writer does not wait for the readers to leave.
CanLock_NoWait == mu.writer = NoThread

\* sync.RWMutex: the writer enters once every reader has left.
CanLock == mu.writer = NoThread /\ mu.readers = {}

CallLeveled(t, level) ==
    /\ pc[t] = "start" /\ pc[Main] \notin {"start", "configured"}
    /\ calls < MaxCalls
    /\ calls' = calls + 1
    /\ lvl' = [lvl EXCEPT ![t] = level]
    /\ pc' = [pc EXCEPT ![t] = "RLock"]
    /\ UNCHANGED <<logger, registry, os, last, wrote, mu, muf, rmv, hist>>

RLock(t) ==
    /\ pc[t] = "RLock" /\ CanRLock
    /\ mu' = [mu EXCEPT !.readers = @ \cup {t}]
    /\ hist' = [hist EXCEPT !.shared = @ \/ Cardinality(mu.readers \cup {t}) > 1]
    /\ pc' = [pc EXCEPT ![t] = "gate"]
    /\ UNCHANGED <<logger, registry, os, last, wrote, lvl, muf, rmv, calls>>

Gate(t, now) ==
    /\ pc[t] = "gate"
    /\ IF ~Quiet /\ lvl[t] >= Level
       THEN LET line == Format(lvl[t], Msg, now) IN
            /\ wrote' = IF Color THEN <<W(writer, SetLevelColor(lvl[t], line))>>
                        ELSE <<W(writer, line)>>
            /\ pc' = [pc EXCEPT ![t] = IF LogToFile THEN "mufLock" ELSE "RUnlock"]
       ELSE /\ wrote' = <<>>
            /\ pc' = [pc EXCEPT ![t] = "RUnlock"]
    /\ UNCHANGED <<logger, registry, os, last, lvl, mu, muf, rmv, calls, hist>>

MufLock(t) ==
    /\ pc[t] = "mufLock" /\ muf = NoThread
    /\ muf' = t
    /\ pc' = [pc EXCEPT ![t] = "check"]
    /\ UNCHANGED <<logger, registry, os, last, wrote, lvl, mu, rmv, calls, hist>>

Check(t) ==
    /\ pc[t] = "check"
    /\ IF logFile = Nil
       THEN /\ wrote' = <<Println(<<"Error: Log file is not initialized.">>)>>
            /\ pc' = [pc EXCEPT ![t] = "mufUnlock"]
       ELSE /\ wrote' = wrote
            /\ pc' = [pc EXCEPT ![t] = "write"]
    /\ UNCHANGED <<logger, registry, os, last, lvl, mu, muf, rmv, calls, hist>>

\* log.logFile.WriteString(line): the handle is read again here.
Write(t, now) ==
    /\ pc[t] = "write"
    /\ IF logFile = Nil \/ logFile \notin DOMAIN fds
       THEN /\ wrote' = <<W(Stdout, <<"Error writing to logfile: ", "\n">>)>>
            /\ hist' = [hist EXCEPT !.stale = TRUE]
            /\ fs' = fs
       ELSE LET f == writeToFile(Format(lvl[t], Msg, now)) IN
            /\ fs' = f.fs /\ wrote' = f.wrote /\ hist' = hist
    /\ pc' = [pc EXCEPT ![t] = "mufUnlock"]
    /\ UNCHANGED <<logger, registry, fds, badClose, removed, last, lvl, mu, muf,
                   rmv, calls>>

MufUnlock(t) ==
    /\ pc[t] = "mufUnlock" /\ muf = t
    /\ muf' = NoThread
    /\ pc' = [pc EXCEPT ![t] = "RUnlock"]
    /\ UNCHANGED <<logger, registry, os, last, wrote, lvl, mu, rmv, calls, hist>>

RUnlock(t) ==
    /\ pc[t] = "RUnlock"
    /\ mu' = [mu EXCEPT !.readers = @ \ {t}]
    /\ pc' = [pc EXCEPT ![t] = "start"]
    /\ UNCHANGED <<logger, registry, os, last, wrote, lvl, muf, rmv, calls, hist>>

CallClose(remove) ==
    /\ pc[Main] = "ready"
    /\ rmv' = remove
    /\ mu' = [mu EXCEPT !.pending = TRUE]
    /\ pc' = [pc EXCEPT ![Main] = "Lock"]
    /\ UNCHANGED <<logger, registry, os, last, wrote, lvl, muf, calls, hist>>

Lock ==
    /\ pc[Main] = "Lock" /\ CanLock
    /\ mu' = [mu EXCEPT !.writer = Main, !.pending = FALSE]
    /\ pc' = [pc EXCEPT ![Main] = "closeFile"]
    /\ UNCHANGED <<logger, registry, os, last, wrote, lvl, muf, rmv, calls, hist>>

CloseLogFile ==
    /\ pc[Main] = "closeFile"
    /\ IF logFile # Nil
       THEN LET c == CloseFile(fds, badClose, logFile) IN
            /\ fds' = c.fds /\ badClose' = c.bad
            /\ pc' = [pc EXCEPT ![Main] = "setNil"]
       ELSE /\ fds' = fds /\ badClose' = badClose
            /\ pc' = [pc EXCEPT ![Main] = "remove"]
    /\ UNCHANGED <<logger, registry, fs, removed, last, wrote, lvl, mu, muf, rmv,
                   calls, hist>>

SetNil ==
    /\ pc[Main] = "setNil"
    /\ logFile' = Nil
    /\ pc' = [pc EXCEPT ![Main] = "remove"]
    /\ UNCHANGED <<Quiet, Clean, Level, Color, LogToFile, LogFileName,
                   writer, formatter, colorMap, registry, os, last, wrote,
                   lvl, mu, muf, rmv, calls, hist>>

Remove ==
    /\ pc[Main] = "remove"
    /\ IF rmv
       THEN IF LogFileName \in DOMAIN fs
            THEN /\ fs' = Restrict(fs, DOMAIN fs \ {LogFileName})
                 /\ removed' = TRUE
                 /\ wrote' = <<>>
            ELSE /\ fs' = fs /\ removed' = removed
                 /\ wrote' = <<W(Stdout, <<"Error removing logfile: ">>)>>
       ELSE fs' = fs /\ removed' = removed /\ wrote' = wrote
    /\ pc' = [pc EXCEPT ![Main] = "Unlock"]
    /\ UNCHANGED <<logger, registry, fds, badClose, last, lvl, mu, muf, rmv,
                   calls, hist>>

Unlock ==
    /\ pc[Main] = "Unlock"
    /\ mu' = [mu EXCEPT !.writer = NoThread]
    /\ pc' = [pc EXCEPT ![Main] = "ready"]
    /\ UNCHANGED <<logger, registry, os, last, wrote, lvl, muf, rmv, calls, hist>>

\* ---------------------------------------------------------------- Next
OwnFormatter == [global |-> FALSE,
                 map |-> (Warn :> <<"W: ", "%s", "\n">>)]
OwnColorMap == [global |-> FALSE, map |-> (Warn :> "Red")]
GlobalMap == [global |-> TRUE, map |-> EmptyMap]
StringOpt == <<[type |-> "string", str |-> <<"T ", "%s", "\n">>]>>
FuncOpt == <<[type |-> "func", fn |-> "Green"]>>

\* One thread uses a Logger that keeps the global registries.
Next ==
    \/ \E q \in BOOLEAN : SetQuiet(q) /\ UNCHANGED threads
    \/ \E c \in BOOLEAN : SetClean(c) /\ UNCHANGED threads
    \/ \E c \in BOOLEAN : SetColor(c) /\ UNCHANGED threads
    \/ \E l \in MinLevels : SetLevel(l) /\ UNCHANGED threads
    \/ \E f \in Paths : SetFile(f) /\ UNCHANGED threads
    \/ \E l \in BOOLEAN : SetIsLogToFile(l) /\ UNCHANGED threads
    \/ InitLogFile /\ UNCHANGED threads
    \/ \E r \in BOOLEAN : Close(r) /\ UNCHANGED threads
    \/ AddLevel(CustomLevel, "test", <<>>) /\ UNCHANGED threads
    \/ \E l \in CallLevels, t \in Times : Log(l, Msg, t) /\ UNCHANGED threads
    \/ \E l \in CallLevels, t \in Times :
          Logf(l, FmtArg, <<Msg>>, t) /\ UNCHANGED threads
    \/ \E w \in Writers, l \in CallLevels, t \in Times :
          FLogf(w, l, Msg, t) /\ UNCHANGED threads
    \/ \E l \in NamedLevels, t \in Times :
          LevelMethod(l, Msg, t) /\ UNCHANGED threads
    \/ \E l \in NamedLevels, t \in Times :
          LevelMethodf(l, FmtArg, <<Msg>>, t) /\ UNCHANGED threads
    \/ \E w \in Writers, l \in NamedLevels, t \in Times :
          FLevelMethodf(w, l, FmtArg, <<Msg>>, t) /\ UNCHANGED threads
    \/ Console(Msg) /\ UNCHANGED threads
    \/ Consolef(FmtArg, <<Msg>>) /\ UNCHANGED threads
    \/ \E w \in Writers : FConsolef(w, FmtArg, <<Msg>>) /\ UNCHANGED threads

Spec == Init /\ [][Next]_vars

\* One thread formats lines under every combination of the maps.
NextFormat ==
    \/ \E c \in BOOLEAN : SetColor(c) /\ UNCHANGED threads
    \/ \E l \in MinLevels : SetLevel(l) /\ UNCHANGED threads
    \/ \E w \in Writers : SetOutput(w) /\ UNCHANGED threads
    \/ \E f \in {OwnFormatter, GlobalMap} : SetFormatter(f) /\ UNCHANGED threads
    \/ \E cm \in {OwnColorMap, GlobalMap} : SetColorMap(cm) /\ UNCHANGED threads
    \/ \E o \in {<<>>, StringOpt, FuncOpt, StringOpt \o FuncOpt} :
          AddLevel(CustomLevel, "test", o) /\ UNCHANGED threads
    \/ \E l \in CallLevels, t \in Times : Log(l, Msg, t) /\ UNCHANGED threads
    \/ \E l \in CallLevels, t \in Times :
          Logf(l, FmtArg, <<Msg>>, t) /\ UNCHANGED threads
    \/ \E w \in Writers, l \in CallLevels, t \in Times :
          FLogf(w, l, Msg, t) /\ UNCHANGED threads

SpecFormat == Init /\ [][NextFormat]_vars

\* One thread reconfigures a Logger between leveled calls.
NextSetters ==
    \/ \E q \in BOOLEAN : SetQuiet(q) /\ UNCHANGED threads
    \/ \E c \in BOOLEAN : SetClean(c) /\ UNCHANGED threads
    \/ \E c \in BOOLEAN : SetColor(c) /\ UNCHANGED threads
    \/ \E l \in MinLevels : SetLevel(l) /\ UNCHANGED threads
    \/ \E w \in Writers : SetOutput(w) /\ UNCHANGED threads
    \/ \E f \in Paths : SetFile(f) /\ UNCHANGED threads
    \/ \E f \in {OwnFormatter, GlobalMap} : SetFormatter(f) /\ UNCHANGED threads
    \/ \E cm \in {OwnColorMap, GlobalMap} : SetColorMap(cm) /\ UNCHANGED threads
    \/ \E l \in BOOLEAN : SetIsLogToFile(l) /\ UNCHANGED threads
    \/ InitLogFile /\ UNCHANGED threads
    \/ \E t \in Times : LevelMethod(Warn, Msg, t) /\ UNCHANGED threads

SpecSetters == Init /\ [][NextSetters]_vars

\* Emitter threads log while the main thread closes the Logger.
NextConc ==
    \/ \E f \in GoodPaths : MainSetFile(f)
    \/ MainSetIsLogToFile
    \/ \E t \in Emitters, l \in {Debug, Warn} : CallLeveled(t, l)
    \/ \E t \in Emitters : RLock(t)
    \/ \E t \in Emitters, now \in Times : Gate(t, now)
    \/ \E t \in Emitters : MufLock(t)
    \/ \E t \in Emitters : Check(t)
    \/ \E t \in Emitters, now \in Times : Write(t, now)
    \/ \E t \in Emitters : MufUnlock(t)
    \/ \E t \in Emitters : RUnlock(t)
    \/ \E r \in BOOLEAN : CallClose(r)
    \/ Lock
    \/ CloseLogFile
    \/ SetNil
    \/ Remove
    \/ Unlock

SpecConc == Init /\ [][NextConc]_vars

\* ---------------------------------------------------------------- claims
IsLeveled == last.op = "leveled"
PassesGate == ~Quiet /\ last.level >= Level
Diagnostics == {"Error: Set log file is error",
                "Error: Log file is not initialized.",
                "Error writing to logfile: ", "Error removing logfile: "}
IsDiag(e) == e.to = Stdout /\ e.data # <<>> /\ Head(e.data) \in Diagnostics
\* the rendered lines the last operation wrote to writers, and to files
WriterLines == SelectSeq(wrote, LAMBDA e : e.to \in Writers /\ ~IsDiag(e))
FileLines == SelectSeq(wrote, LAMBDA e : e.to \in GoodPaths)
ShownOf(level, text, now) ==
    IF Color THEN SetLevelColor(level, Format(level, text, now))
    ELSE Format(level, text, now)
Rendered(now) == Format(last.level, last.text, now)
Shown(now) == ShownOf(last.level, last.text, now)
ColorTokens == {"Yellow", "RedBold", "Cyan", "CyanBold", "YellowBold",
                "PurpleBold", "Red", "Green", "Reset"}
Uncolored(s) == \A i \in 1..Len(s) : s[i] \notin ColorTokens
NotInit == Println(<<"Error: Log file is not initialized.">>)

\* C1: a leveled call writes to a sink (a writer or the log file) only if
\* Quiet is false and its level is at least Level at the time of the call;
\* otherwise it writes nothing to any writer and leaves every file as it was.
C1_GateStep ==
    last'.op = "leveled" =>
        ((wrote' # <<>> \/ fs' # fs) => (~Quiet /\ last'.level >= Level))
C1_Gate == [][C1_GateStep]_vars
\* level 1, registered by AddLevel(1, "test"), logged while Level = Debug
C1_Witness ==
    /\ IsLeveled /\ last.level = CustomLevel /\ CustomLevel \in DOMAIN Levels
    /\ Level = Debug /\ ~Quiet /\ LogToFile /\ logFile # Nil /\ wrote = <<>>

\* C2 as stated: a leveled call that passes the gate writes exactly one
\* rendered line to its writer and, if LogToFile is set, appends exactly one
\* line, the uncolored one, to a log file.
C2_Original ==
    IsLeveled /\ PassesGate =>
        \E now \in Times :
            /\ WriterLines = <<W(last.target, Shown(now))>>
            /\ LogToFile =>
                  (Len(FileLines) = 1 /\ FileLines[1].data = Rendered(now))
\* C2 amended: the one rendered line goes to the target writer; the one
\* uncolored line is appended to the file of the open handle when LogToFile
\* is set and a handle is open, and nothing is appended when none is open.
C2_Lines ==
    IsLeveled /\ PassesGate =>
        \E now \in Times :
            /\ wrote # <<>> /\ Head(wrote) = W(last.target, Shown(now))
            /\ WriterLines = <<W(last.target, Shown(now))>>
            /\ Uncolored(Rendered(now))
            /\ FileLines = IF LogToFile /\ logFile # Nil
                           THEN <<W(fds[logFile], Rendered(now))>> ELSE <<>>
C2_Witness ==
    /\ IsLeveled /\ PassesGate /\ Color /\ LogToFile /\ logFile # Nil
    /\ last.level = Warn /\ Len(wrote) = 2
    /\ wrote[1].to \in Writers /\ wrote[2].to \in GoodPaths
    /\ wrote[1].data # wrote[2].data /\ Uncolored(wrote[2].data)

\* C3 as stated: with Clean set, a leveled call that passes the gate writes
\* nothing to the target writer, and still writes to the log file.
C3_Original ==
    IsLeveled /\ PassesGate /\ Clean =>
        /\ WriterLines = <<>>
        /\ (LogToFile /\ logFile # Nil) => Len(FileLines) = 1
\* C3 amended: Clean silences Console, Consolef and FConsolef only; a leveled
\* call that passes the gate writes its line to the target writer whether or
\* not Clean is set, and writes to the log file when LogToFile is set and a
\* handle is open.
C3_CleanIsConsoleOnly ==
    /\ last.op = "console" =>
          wrote = IF Clean THEN <<>> ELSE <<W(last.target, last.text)>>
    /\ IsLeveled /\ PassesGate =>
          /\ Len(WriterLines) = 1 /\ WriterLines[1].to = last.target
          /\ (LogToFile /\ logFile # Nil) => Len(FileLines) = 1
C3_Witness ==
    /\ IsLeveled /\ PassesGate /\ Clean /\ LogToFile /\ logFile # Nil
    /\ Len(WriterLines) = 1 /\ Len(FileLines) = 1

\* C4: Close holds the lock exclusively: while Close is between Lock and
\* Unlock no emission is between RLock and RUnlock (an emission that started
\* stays at RLock), and no emission writes through a handle that is closed.
C4_Exclusive ==
    /\ pc[Main] \in CloseCS => \A t \in Emitters : pc[t] \notin EmitCS
    /\ mu.writer = Main => mu.readers = {}
    /\ \A t \in Emitters : pc[t] \in EmitCS <=> t \in mu.readers
    /\ \A t \in Emitters : pc[t] = "write" => logFile \in DOMAIN fds
    /\ ~hist.stale
\* two emissions have held the lock together; now Close has closed the handle
\* while an emission waits at RLock
C4_Witness ==
    /\ hist.shared /\ pc[Main] = "setNil" /\ logFile \notin DOMAIN fds
    /\ \E t \in Emitters : pc[t] = "RLock"
    /\ LogFileName \in DOMAIN fs /\ fs[LogFileName] > 0

\* C5 as stated: after SetIsLogToFile(true) or InitLogFile with a path that
\* cannot be opened, LogToFile is true and the handle is nil.
C5_Original ==
    (/\ LogFileName \notin GoodPaths
     /\ (last.op = "SetIsLogToFile" /\ last.flag) \/ last.op = "InitLogFile")
    => (LogToFile /\ logFile = Nil)
\* C5 amended: SetIsLogToFile(true) with such a path returns with LogToFile
\* true and the handle nil; InitLogFile returns with the handle nil and
\* LogToFile as it was; a later leveled call that passes the gate writes its
\* line to the target writer and appends to no file (with LogToFile set it
\* prints the diagnostic instead).
C5_Step ==
    /\ (last'.op = "SetIsLogToFile" /\ last'.flag /\ LogFileName \notin GoodPaths)
          => (LogToFile' /\ logFile' = Nil)
    /\ (last'.op = "InitLogFile" /\ LogFileName \notin GoodPaths)
          => (LogToFile' = LogToFile /\ logFile' = Nil)
    /\ (last'.op = "leveled" /\ ~Quiet /\ last'.level >= Level /\ logFile = Nil)
          => /\ fs' = fs
             /\ \E now \in Times :
                   wrote' = <<W(last'.target,
                                ShownOf(last'.level, last'.text, now))>>
                            \o (IF LogToFile THEN <<NotInit>> ELSE <<>>)
C5_NilHandle == [][C5_Step]_vars
\* no file was ever created, the flag is set, and a line has been logged
C5_Witness ==
    /\ IsLeveled /\ PassesGate /\ LogToFile /\ logFile = Nil
    /\ LogFileName \notin GoodPaths /\ fs = EmptyMap /\ ~removed
    /\ Len(wrote) = 2 /\ wrote[2] = NotInit

\* C6: the Logger holds at most one open log-file handle, the one in its
\* logFile field; no handle is closed twice; SetIsLogToFile(false) and Close
\* leave it with none.
C6_OneHandle ==
    /\ Cardinality(DOMAIN fds) <= 1
    /\ DOMAIN fds = IF logFile = Nil THEN {} ELSE {logFile}
    /\ ~badClose
    /\ (last.op = "Close" \/ (last.op = "SetIsLogToFile" /\ ~last.flag))
          => (logFile = Nil /\ DOMAIN fds = {})
\* the file is reopened after lines went in through an earlier handle
C6_Witness ==
    /\ last.op \in {"SetIsLogToFile", "InitLogFile"} /\ logFile # Nil
    /\ LogFileName \in DOMAIN fs /\ fs[LogFileName] >= 1

\* C7: Close(true) deletes the file at the configured path; SetIsLogToFile(true)
\* then creates it again, empty, with an open handle on it; a leveled call
\* that passes the gate appends one line to the file of the open handle.
C7_Step ==
    /\ (last'.op = "Close" /\ last'.flag) => LogFileName \notin DOMAIN fs'
    /\ (last'.op = "SetIsLogToFile" /\ last'.flag /\ LogFileName \in GoodPaths
          /\ LogFileName \notin DOMAIN fs)
          => /\ LogFileName \in DOMAIN fs' /\ fs'[LogFileName] = 0
             /\ logFile' \in DOMAIN fds' /\ fds'[logFile'] = LogFileName
    /\ (last'.op = "leveled" /\ ~Quiet /\ last'.level >= Level /\ LogToFile
          /\ logFile \in DOMAIN fds /\ fds[logFile] \in DOMAIN fs)
          => fs' = [fs EXCEPT ![fds[logFile]] = @ + 1]
C7_Recreate == [][C7_Step]_vars
\* a file deleted by Close(true) exists again and holds the one line logged
C7_Witness ==
    /\ removed /\ IsLeveled /\ PassesGate /\ LogToFile
    /\ logFile \in DOMAIN fds /\ fds[logFile] = LogFileName
    /\ LogFileName \in DOMAIN fs /\ fs[LogFileName] = 1 /\ Len(FileLines) = 1

\* C8 as stated: for a level with no entry in the instance map or the global
\* map, the line written is the template of Formatter(), "[<name>] %s", with
\* the message substituted.
C8_Fallback ==
    (IsLeveled /\ PassesGate /\ last.level \notin DOMAIN TheFormatter
       /\ last.level \notin DOMAIN DefaultFormatterMap)
    => \E now \in Times :
          LET line == Replace(Replace(Sprintf(Formatter(last.level), <<last.text>>),
                                      "{{suffix}}", SuffixFunc(now)),
                              "{{prefix}}", PrefixFunc)
          IN  Head(wrote).data =
                  IF Color THEN SetLevelColor(last.level, line) ELSE line
\* The order of resolution alone: the instance map, then the global map, then
\* the template Format synthesizes, "[<name>] %s " (it ends in a space).
C8_Resolution ==
    (IsLeveled /\ PassesGate /\ ~Color) =>
        \E now \in Times :
            LET tpl == IF last.level \in DOMAIN TheFormatter
                       THEN TheFormatter[last.level]
                       ELSE IF last.level \in DOMAIN DefaultFormatterMap
                            THEN DefaultFormatterMap[last.level]
                            ELSE <<"[", Name(last.level), "] ", "%s", " ">>
            IN  Head(wrote).data =
                    Replace(Sprintf(tpl, <<last.text>>), "{{suffix}}", SuffixFunc(now))

\* C9: a setter other than SetIsLogToFile changes its own field and nothing
\* else: no other field, not the handle, no file, no registry; so after
\* SetFile the open handle still receives the lines.
C9_Step ==
    /\ last'.op = "SetQuiet" =>
          UNCHANGED <<Clean, Level, Color, LogToFile, LogFileName, logFile,
                      writer, formatter, colorMap, registry, fs, fds>>
    /\ last'.op = "SetClean" =>
          UNCHANGED <<Quiet, Level, Color, LogToFile, LogFileName, logFile,
                      writer, formatter, colorMap, registry, fs, fds>>
    /\ last'.op = "SetColor" =>
          UNCHANGED <<Quiet, Clean, Level, LogToFile, LogFileName, logFile,
                      writer, formatter, colorMap, registry, fs, fds>>
    /\ last'.op = "SetLevel" =>
          UNCHANGED <<Quiet, Clean, Color, LogToFile, LogFileName, logFile,
                      writer, formatter, colorMap, registry, fs, fds>>
    /\ last'.op = "SetOutput" =>
          UNCHANGED <<Quiet, Clean, Level, Color, LogToFile, LogFileName, logFile,
                      formatter, colorMap, registry, fs, fds>>
    /\ last'.op = "SetFile" =>
          UNCHANGED <<Quiet, Clean, Level, Color, LogToFile, logFile,
                      writer, formatter, colorMap, registry, fs, fds>>
    /\ last'.op = "SetFormatter" =>
          UNCHANGED <<Quiet, Clean, Level, Color, LogToFile, LogFileName, logFile,
                      writer, colorMap, registry, fs, fds>>
    /\ last'.op = "SetColorMap" =>
          UNCHANGED <<Quiet, Clean, Level, Color, LogToFile, LogFileName, logFile,
                      writer, formatter, registry, fs, fds>>
    /\ (last'.op = "leveled" /\ ~Quiet /\ last'.level >= Level /\ LogToFile
          /\ logFile # Nil)
          => /\ Len(FileLines') = 1 /\ FileLines'[1].to = fds[logFile]
             /\ fs'[fds[logFile]] = fs[fds[logFile]] + 1
C9_Frame == [][C9_Step]_vars
\* the path was changed by SetFile and the line went to the file opened before
C9_Witness ==
    /\ IsLeveled /\ PassesGate /\ LogToFile /\ logFile # Nil
    /\ fds[logFile] # LogFileName
    /\ Len(FileLines) = 1 /\ FileLines[1].to = fds[logFile]

\* C10: Close leaves LogToFile as it was and the handle nil; with LogToFile
\* set and the handle nil a leveled call that passes the gate writes to the
\* target writer and appends to no file; the handle stays nil until
\* SetIsLogToFile or InitLogFile; and only InitLogFile leads to LogToFile
\* false with an open handle.
C10_Step ==
    /\ last'.op = "Close" => (LogToFile' = LogToFile /\ logFile' = Nil)
    /\ (last'.op = "leveled" /\ ~Quiet /\ last'.level >= Level /\ LogToFile
          /\ logFile = Nil)
          => /\ fs' = fs /\ FileLines' = <<>>
             /\ Len(WriterLines') = 1 /\ WriterLines'[1].to = last'.target
    /\ (logFile = Nil /\ logFile' # Nil)
          => last'.op \in {"SetIsLogToFile", "InitLogFile"}
    /\ ((~LogToFile' /\ logFile' # Nil) /\ ~(~LogToFile /\ logFile # Nil))
          => last'.op = "InitLogFile"
C10_CloseKeepsFlag == [][C10_Step]_vars
\* Close(false) has just closed the handle of a file that holds lines
C10_Witness ==
    /\ last.op = "Close" /\ ~last.flag /\ LogToFile /\ logFile = Nil
    /\ LogFileName \in DOMAIN fs /\ fs[LogFileName] >= 1
\* LogToFile false with an open handle
C10_FlagOffHandleOpen == ~LogToFile /\ logFile # Nil
====
